---- MODULE Spec2Model ----
(***************************************************************************)
(* Oclgrind RaceDetector plugin (src/src/plugins/RaceDetector.cpp).        *)
(*                                                                         *)
(* The detector keeps one shadow State per byte of every non-private       *)
(* allocation (m_state) and is driven by the interpreter's events.  Each   *)
(* action below is one event handler, run to completion.                   *)
(*                                                                         *)
(* Besides the detector's own fields the module carries history variables  *)
(* (last, watch, g, track) that record what happened; no handler           *)
(* reads them.  watch is one byte of an allocation, picked when the        *)
(* allocation is made; g summarises the history of that byte, so that a    *)
(* statement about "a byte and the accesses to it" is checked for every    *)
(* byte by checking it for every choice of watch.  track says how much     *)
(* history is kept.  fault says that the process has been aborted by an    *)
(* invalid memory access of a handler; no event is handled after that.     *)
(***************************************************************************)
EXTENDS Integers, Sequences, FiniteSets, TLC

VARIABLES m_kernelInvocation, m_allowUniformWrites, m_state, fault,
          last, watch, g, track

vars == <<m_kernelInvocation, m_allowUniformWrites, m_state, fault,
          last, watch, g, track>>

(***************************************************************************)
(* Bounds of the model.                                                    *)
(***************************************************************************)
NumGroups == 2        \* work-groups of the kernel invocation
LocalSize == 2        \* work-items per work-group
MaxSize == 2          \* largest allocation, hence largest access
MaxByte == 1          \* stored byte values are 0..MaxByte
MaxContent == 0       \* byte values found in memory are 0..MaxContent
MaxLive == 1          \* allocations live at the same time
MaxWorkItems == 3     \* work-items of the invocation that access memory

(***************************************************************************)
(* Program constants.                                                      *)
(***************************************************************************)
None == -1                   \* (size_t)-1, "no work-item / no work-group"
NULL == "NULL"               \* null llvm::Instruction*
CLK_LOCAL_MEM_FENCE == 1
CLK_GLOBAL_MEM_FENCE == 2
OffsetSpan == 4              \* stands for 2^(number of offset bits)

WorkItems ==
  {wi \in 0 .. (NumGroups * LocalSize - 1) : wi < MaxWorkItems}
Groups == 0 .. (NumGroups - 1)
Bytes == 0 .. MaxByte
Instructions == {"insn"}
BarrierFlags == 1 .. (CLK_LOCAL_MEM_FENCE + CLK_GLOBAL_MEM_FENCE)

\* Kernel geometry of the current invocation (one-dimensional).
getGlobalSize == <<NumGroups * LocalSize, 1, 1>>
getLocalSize == <<LocalSize, 1, 1>>
getNumGroups == <<NumGroups, 1, 1>>

\* workItem->getWorkGroup()->getGroupIndex() for a global index.
GroupOf(wi) == wi \div LocalSize

\* Memory objects: the context's global memory, one local memory per group
\* (Memories), and one private memory per work-item.
getGlobalMemory == <<"Global", None>>
getLocalMemory(wg) == <<"Local", wg>>
getPrivateMemory(wi) == <<"Private", wi>>
AddrSpacePrivate == "Private"
Memories == {getGlobalMemory} \cup {getLocalMemory(wg) : wg \in Groups}
getAddressSpace(memory) == memory[1]

\* Address = (buffer id, offset) packed by a fixed split.
Buffer == 1
Address(buffer, offset) == buffer * OffsetSpan + offset
EXTRACT_BUFFER(address) == address \div OffsetSpan
EXTRACT_OFFSET(address) == address % OffsetSpan
KEY(memory, address) == <<memory, EXTRACT_BUFFER(address)>>

HasFlag(flags, f) == (flags \div f) % 2 = 1

(***************************************************************************)
(* RaceDetector::State::State                                              *)
(***************************************************************************)
StateInit ==
  [instruction |-> NULL, workItem |-> None, workGroup |-> None,
   canAtomic |-> TRUE, canRead |-> TRUE, canWrite |-> TRUE,
   wasWorkItem |-> FALSE]

(***************************************************************************)
(* Size3(index, size): a linear index decomposed row-major over size.      *)
(***************************************************************************)
Size3(index, size) ==
  <<index % size[1],
    (index \div size[1]) % size[2],
    index \div (size[1] * size[2])>>

(***************************************************************************)
(* RaceDetector::logRace: the message sent to the context.  The second     *)
(* entity is chosen from the parameters lastWorkItem and lastWorkGroup in  *)
(* the order the function declares them.                                   *)
(***************************************************************************)
SecondEntity(lastWorkGroup, lastWorkItem) ==
  IF lastWorkItem # None
  THEN LET global == Size3(lastWorkItem, getGlobalSize)
       IN [kind |-> "Global",
           global |-> global,
           local |-> <<global[1] % getLocalSize[1],
                       global[2] % getLocalSize[2],
                       global[3] % getLocalSize[3]>>,
           group |-> <<global[1] \div getLocalSize[1],
                       global[2] \div getLocalSize[2],
                       global[3] \div getLocalSize[3]>>]
  ELSE IF lastWorkGroup # None
  THEN [kind |-> "Group", global |-> <<>>, local |-> <<>>,
        group |-> Size3(lastWorkGroup, getNumGroups)]
  ELSE [kind |-> "(unknown)", global |-> <<>>, local |-> <<>>, group |-> <<>>]

logRace(type, addrSpace, address, lastWorkGroup, lastWorkItem, lastInstruction) ==
  [type |-> type,
   addrSpace |-> addrSpace,
   address |-> address,
   second |-> SecondEntity(lastWorkGroup, lastWorkItem),
   instruction |-> lastInstruction]

\* A diagnostic as the sink receives it (msg), with the loop offset at which
\* the handler raised it and the shadow byte it was raised on.
Diag(msg, offset, state) == [msg |-> msg, offset |-> offset, byte |-> state]

(***************************************************************************)
(* RaceDetector::registerLoadStore, one iteration of the byte loop.        *)
(* a is the call: memory, workItemIndex, workGroupIndex (None when the     *)
(* pointer is NULL), address, size, store, storeData, ptr (the bytes       *)
(* memory->getPointer(address) points at), instruction.                    *)
(***************************************************************************)
\* The conflict test with the uniform-write filter of lines 214-217 left out.
ConflictUnfiltered(a, state, offset) ==
  IF a.store THEN ~state.canWrite ELSE ~state.canRead

Conflict(a, state, offset) ==
  LET conflict == IF a.store THEN ~state.canWrite ELSE ~state.canRead
  IN IF m_allowUniformWrites /\ a.store
     THEN conflict /\ (a.ptr[offset + 1] # a.storeData[offset + 1])
     ELSE conflict

OtherEntity(a, state) ==
  IF state.wasWorkItem
  THEN state.workItem # a.workItemIndex
  ELSE state.workGroup # a.workGroupIndex

RaceType(a, state) ==
  IF (~a.store) \/ state.canRead THEN "ReadWriteRace" ELSE "WriteWriteRace"

\* The state update with canRead cleared by loads as it is by stores
\* (line 237 without "&= load").
UpdateStateClearing(a, state) ==
  LET load == ~a.store
      updateWI == a.store \/ (load /\ state.canWrite)
      s1 == [state EXCEPT !.canAtomic = FALSE,
                          !.canRead = FALSE,
                          !.canWrite = FALSE]
      s2 == IF updateWI THEN [s1 EXCEPT !.workGroup = a.workGroupIndex] ELSE s1
  IN IF updateWI /\ a.workItemIndex # None
     THEN [s2 EXCEPT !.instruction = a.instruction,
                     !.workItem = a.workItemIndex,
                     !.wasWorkItem = TRUE]
     ELSE s2

UpdateState(a, state) ==
  LET load == ~a.store
      updateWI == a.store \/ (load /\ state.canWrite)
      s1 == [state EXCEPT !.canAtomic = FALSE,
                          !.canRead = state.canRead /\ load,
                          !.canWrite = FALSE]
      s2 == IF updateWI THEN [s1 EXCEPT !.workGroup = a.workGroupIndex] ELSE s1
  IN IF updateWI /\ a.workItemIndex # None
     THEN [s2 EXCEPT !.instruction = a.instruction,
                     !.workItem = a.workItemIndex,
                     !.wasWorkItem = TRUE]
     ELSE s2

RegisterByte(a, state, offset, race) ==
  IF ~race /\ Conflict(a, state, offset) /\ OtherEntity(a, state)
  THEN [state |-> state,
        race |-> TRUE,
        diags |-> <<Diag(logRace(RaceType(a, state), getAddressSpace(a.memory),
                                 a.address + offset,
                                 state.workItem, state.workGroup,
                                 state.instruction),
                         offset, state)>>]
  ELSE [state |-> UpdateState(a, state), race |-> race, diags |-> <<>>]

RECURSIVE RegisterLoop(_, _, _, _, _)
RegisterLoop(a, shadow, offset, race, diags) ==
  IF offset >= a.size
  THEN [shadow |-> shadow, diags |-> diags]
  ELSE LET i == EXTRACT_OFFSET(a.address) + offset + 1
           r == RegisterByte(a, shadow[i], offset, race)
       IN RegisterLoop(a, [shadow EXCEPT ![i] = r.state], offset + 1,
                       r.race, diags \o r.diags)

(***************************************************************************)
(* RaceDetector::memoryAtomic, one iteration of the byte loop.             *)
(***************************************************************************)
AtomicRace(a, state) ==
  ~state.canAtomic /\ a.workItemIndex # state.workItem

\* The atomic update with canAtomic cleared as loads and stores clear it
\* (line 236 added to lines 74-82).
AtomicUpdateClearing(a, state) ==
  LET s1 == [state EXCEPT !.canAtomic = FALSE,
                          !.canRead = FALSE, !.canWrite = FALSE]
  IN IF ~state.wasWorkItem
     THEN [s1 EXCEPT !.instruction = a.instruction,
                     !.workItem = a.workItemIndex,
                     !.wasWorkItem = TRUE]
     ELSE s1

AtomicUpdate(a, state) ==
  LET s1 == [state EXCEPT !.canRead = FALSE, !.canWrite = FALSE]
  IN IF ~state.wasWorkItem
     THEN [s1 EXCEPT !.instruction = a.instruction,
                     !.workItem = a.workItemIndex,
                     !.wasWorkItem = TRUE]
     ELSE s1

AtomicByte(a, state, offset) ==
  [state |-> AtomicUpdate(a, state),
   diags |-> IF AtomicRace(a, state)
             THEN <<Diag(logRace("ReadWriteRace", getAddressSpace(a.memory),
                                 a.address,
                                 state.workItem, state.workGroup,
                                 state.instruction),
                         offset, state)>>
             ELSE <<>>]

RECURSIVE AtomicLoop(_, _, _, _)
AtomicLoop(a, shadow, offset, diags) ==
  IF offset >= a.size
  THEN [shadow |-> shadow, diags |-> diags]
  ELSE LET i == EXTRACT_OFFSET(a.address) + offset + 1
           r == AtomicByte(a, shadow[i], offset)
       IN AtomicLoop(a, [shadow EXCEPT ![i] = r.state], offset + 1,
                     diags \o r.diags)

(***************************************************************************)
(* RaceDetector::synchronize                                               *)
(***************************************************************************)
\* synchronize with the reset of lines 269-274 applied whatever workGroup is.
SyncStateFull(state, workGroup) ==
  [state EXCEPT !.canAtomic = TRUE,
                !.workItem = None,
                !.wasWorkItem = FALSE,
                !.workGroup = None, !.canRead = TRUE, !.canWrite = TRUE]

\* synchronize without the reset of wasWorkItem (line 269).
SyncStateKeepFlag(state, workGroup) ==
  LET s1 == [state EXCEPT !.canAtomic = TRUE,
                          !.workItem = None]
  IN IF ~workGroup
     THEN [s1 EXCEPT !.workGroup = None, !.canRead = TRUE, !.canWrite = TRUE]
     ELSE s1

SyncState(state, workGroup) ==
  LET s1 == [state EXCEPT !.canAtomic = TRUE,
                          !.workItem = None,
                          !.wasWorkItem = FALSE]
  IN IF ~workGroup
     THEN [s1 EXCEPT !.workGroup = None, !.canRead = TRUE, !.canWrite = TRUE]
     ELSE s1

\* synchronize with every call treated as a work-group one (line 270 never
\* taken).
synchronizeGroupOnly(store, memory, workGroup) ==
  [k \in DOMAIN store |->
     IF k[1] # memory
     THEN store[k]
     ELSE [i \in DOMAIN store[k] |-> SyncState(store[k][i], TRUE)]]

synchronize(store, memory, workGroup) ==
  [k \in DOMAIN store |->
     IF k[1] # memory
     THEN store[k]
     ELSE [i \in DOMAIN store[k] |-> SyncState(store[k][i], workGroup)]]

\* RaceDetector::workGroupBarrier, on the shadow store.
BarrierStore(store, wg, flags) ==
  LET s1 == IF HasFlag(flags, CLK_LOCAL_MEM_FENCE)
            THEN synchronize(store, getLocalMemory(wg), FALSE)
            ELSE store
  IN IF HasFlag(flags, CLK_GLOBAL_MEM_FENCE)
     THEN synchronize(s1, getGlobalMemory, TRUE)
     ELSE s1

(***************************************************************************)
(* History variables.                                                      *)
(*   track  which history is kept:                                         *)
(*            "diag"      the diagnostics of every event, with the shadow  *)
(*                        bytes they were raised on; no watched byte;      *)
(*            "pair"      the first access to the watched byte and the     *)
(*                        access that follows it at once;                  *)
(*            "kinds"     the operations applied to the watched byte since *)
(*                        its allocation or last full synchronize;         *)
(*            "reuse"     the groups that accessed the watched byte since  *)
(*                        then, and the barriers since its last access;    *)
(*            "epoch"     the work-items that loaded and stored the        *)
(*                        watched byte since the last barrier, until an    *)
(*                        access to it emits a diagnostic;                 *)
(*            "scenario"  a store to the watched byte, barriers, a load;   *)
(*            "kernel"    kernelEnd, kernelBegin and the first access to   *)
(*                        the watched byte after them;                     *)
(*            "sync"      the synchronize(memory, false) just executed;    *)
(*            "frame"     whether the event just handled was on private    *)
(*                        memory or outside every live allocation;         *)
(*                        no watched byte;                                 *)
(*   watch  the watched byte, [key, off], off = None when there is none;   *)
(*   g      what has happened to the watched byte so far;                  *)
(*   last   the outcome of the event just handled, kept under "diag" for   *)
(*          every event and otherwise for the events that g marks.         *)
(***************************************************************************)
Many == None - 1     \* "two or more different ones"

NoWatch == [key |-> <<getGlobalMemory, Buffer>>, off |-> None]

WatchLive ==
  /\ watch.off # None
  /\ watch.key \in DOMAIN m_state
  /\ watch.off < Len(m_state[watch.key])
WatchState == m_state[watch.key][watch.off + 1]
WatchGlobal == watch.off # None /\ watch.key[1] = getGlobalMemory
WatchAddress == Address(watch.key[2], watch.off)

Touches(memory, address, size) ==
  /\ watch.off # None
  /\ KEY(memory, address) = watch.key
  /\ EXTRACT_OFFSET(address) <= watch.off
  /\ watch.off < EXTRACT_OFFSET(address) + size

\* The offset of the watched byte inside an access that touches it.
WatchOffset(address) == watch.off - EXTRACT_OFFSET(address)

\* An event: its payload, the diagnostics its handler sent, and what it
\* meant for the watched byte: whether it is an access the handler applied
\* to it (touched), the byte stored to it (wData), whether the memory content
\* the handler compared that with differs from it (wDiffers), whether the
\* shadow state of the byte was the initial one before the event (wInit).
Event(op, memory, wi, wg, address, size, flags, storeData, ptr, diags, handled) ==
  LET touched == handled /\ op \in {"load", "store", "atomic"}
                   /\ Touches(memory, address, size)
      wOff == WatchOffset(address)
  IN [op |-> op, memory |-> memory, wi |-> wi, wg |-> wg,
      address |-> address, size |-> size, flags |-> flags,
      diags |-> diags, handled |-> handled, touched |-> touched,
      wOff |-> IF touched THEN wOff ELSE None,
      wData |-> IF touched /\ op = "store" THEN storeData[wOff + 1] ELSE None,
      wDiffers |-> touched /\ op = "store" /\ ptr # <<>>
                     /\ ptr[wOff + 1] # storeData[wOff + 1],
      wInit |-> WatchLive /\ WatchState = StateInit]

\* The outcome of an event: the number of diagnostics and their race types,
\* whether one was raised on the watched byte (wDiag) or on a byte of the
\* access before it (wEarlier), whether the memory content differed from the
\* byte stored (wDiffers), and under "diag" the operation and, for each
\* diagnostic, the work-item and work-group recorded in the shadow byte it
\* was raised on with the second entity it names (att).
View(ev) ==
  [op |-> IF track = "diag" THEN ev.op ELSE "access",
   n |-> Len(ev.diags),
   types |-> {ev.diags[i].msg.type : i \in DOMAIN ev.diags},
   wDiag |-> ev.touched /\ \E i \in DOMAIN ev.diags : ev.diags[i].offset = ev.wOff,
   wEarlier |-> ev.touched /\ \E i \in DOMAIN ev.diags : ev.diags[i].offset < ev.wOff,
   wDiffers |-> ev.wDiffers,
   att |-> IF track = "diag"
           THEN {[workItem |-> ev.diags[i].byte.workItem,
                  workGroup |-> ev.diags[i].byte.workGroup,
                  second |-> ev.diags[i].msg.second] : i \in DOMAIN ev.diags}
           ELSE {}]

NoEvent ==
  [op |-> "none", n |-> 0, types |-> {},
   wDiag |-> FALSE, wEarlier |-> FALSE, wDiffers |-> FALSE, att |-> {}]

\* synchronize(memory of the watched byte, false).
FullSyncW(ev) ==
  \/ ev.op = "kernelEnd" /\ WatchGlobal
  \/ /\ ev.op = "barrier"
     /\ watch.off # None
     /\ HasFlag(ev.flags, CLK_LOCAL_MEM_FENCE)
     /\ watch.key[1] = getLocalMemory(ev.wg)

\* A barrier carrying the fence flag of the watched byte's memory.
FenceW(ev) ==
  /\ ev.op = "barrier"
  /\ watch.off # None
  /\ \/ WatchGlobal /\ HasFlag(ev.flags, CLK_GLOBAL_MEM_FENCE)
     \/ /\ watch.key[1] = getLocalMemory(ev.wg)
        /\ HasFlag(ev.flags, CLK_LOCAL_MEM_FENCE)

AddOne(summary, x) ==
  IF summary = None \/ summary = x THEN x ELSE Many

\* track "pair".  first: the event just handled, when it is a store or an
\* atomic by a work-item applied to the watched byte in its initial shadow
\* state.  c5, c9: the event just handled is the second access of the
\* scenario.
NoFirst == [op |-> "none", wi |-> None, wData |-> None]

PairNext(ev) ==
  [g EXCEPT
   !.first = IF ev.touched /\ ev.wi # None /\ ev.op \in {"store", "atomic"}
                /\ ev.wInit
             THEN [op |-> ev.op, wi |-> ev.wi, wData |-> ev.wData]
             ELSE NoFirst,
   \* A stores v to the initial byte, a different B stores v to it
   !.c5 = /\ g.first.op = "store"
          /\ ev.touched /\ ev.op = "store"
          /\ ev.wi # None /\ ev.wi # g.first.wi
          /\ ev.wData = g.first.wData,
   \* an atomic on the initial global byte, then a store from another group
   \* that the uniform-write filter does not suppress
   !.c9 = /\ g.first.op = "atomic" /\ WatchGlobal
          /\ ev.touched /\ ev.op = "store"
          /\ ev.wi # None /\ ev.wg # GroupOf(g.first.wi)
          /\ (~m_allowUniformWrites \/ ev.wDiffers)]

\* track "kinds".  kind: "none" while the watched byte has not been accessed
\* since its allocation or last full synchronize, "load" or "atomic" while
\* every access to it since then was a load, or an atomic, "mixed" otherwise.
KindsNext(ev) ==
  [g EXCEPT
   !.kind = IF FullSyncW(ev) THEN "none"
            ELSE IF ~ev.touched THEN g.kind
            ELSE IF ev.op \in {"load", "atomic"} /\ g.kind \in {"none", ev.op}
                 THEN ev.op
                 ELSE "mixed"]

\* track "reuse".  only: the group whose work-items accessed the watched
\* byte since its allocation or last full synchronize (None: nobody, Many:
\* two groups, or a work-group access).  fresh: the groups that executed a
\* barrier with the byte's fence flag since the last access to it.  c2: the
\* event just handled is an access by a work-item of a group in fresh to a
\* byte only that group's work-items had accessed.
ReuseNext(ev) ==
  [g EXCEPT
   !.only = IF FullSyncW(ev) THEN None
            ELSE IF ~ev.touched THEN g.only
            ELSE IF ev.wi = None THEN Many
            ELSE AddOne(g.only, ev.wg),
   !.fresh = IF FenceW(ev) /\ FullSyncW(ev) THEN {ev.wg}
             ELSE IF FenceW(ev) THEN g.fresh \cup {ev.wg}
             ELSE IF ev.touched \/ FullSyncW(ev) THEN {}
             ELSE g.fresh,
   !.c2 = /\ ev.touched
          /\ ev.wi # None
          /\ ev.wg \in g.fresh
          /\ g.only \in {None, ev.wg}]

\* track "epoch".  diag: an access that covers the watched byte has emitted
\* a diagnostic, on whichever of its bytes, since the kernel began.  While there is none: ldr,
\* str: the work-items that loaded and stored the byte since the last
\* barrier (None, one, or Many); both are Many from the moment one
\* work-item has loaded it and a different one has stored it.
Unsynchronized(ldr, str) ==
  /\ ldr # None
  /\ str # None
  /\ (ldr = Many \/ str = Many \/ ldr # str)

EpochNext(ev) ==
  LET ldr == IF ev.touched /\ ev.op = "load" /\ ev.wi # None
             THEN AddOne(g.ldr, ev.wi) ELSE g.ldr
      str == IF ev.touched /\ ev.op = "store" /\ ev.wi # None
             THEN AddOne(g.str, ev.wi) ELSE g.str
      diag == ev.touched /\ ev.diags # <<>>
  IN IF ev.op = "kernelEnd"
     THEN [g EXCEPT !.ldr = None, !.str = None, !.diag = FALSE]
     ELSE IF g.diag \/ diag
     THEN [g EXCEPT !.ldr = None, !.str = None, !.diag = TRUE]
     ELSE IF ev.op = "barrier"
     THEN [g EXCEPT !.ldr = None, !.str = None]
     ELSE IF Unsynchronized(ldr, str)
     THEN [g EXCEPT !.ldr = Many, !.str = Many]
     ELSE [g EXCEPT !.ldr = ldr, !.str = str]

\* track "scenario".  c3: a store by work-item wi of group wg to the initial
\* watched global byte (ph 1), then barriers with CLK_GLOBAL_MEM_FENCE by
\* the groups bar and nothing else on the byte (ph 2), then a load by
\* work-item ld (ph 3); own: the storing group executed a barrier without
\* CLK_GLOBAL_MEM_FENCE in between.
NoScenario ==
  [ph |-> 0, wg |-> None, wi |-> None, bar |-> {}, ld |-> None, own |-> FALSE]

ScenarioNext(ev) ==
  [g EXCEPT
   !.c3 = IF ev.touched /\ ev.op = "store" /\ ev.wi # None /\ ev.wInit
             /\ WatchGlobal
          THEN [ph |-> 1, wg |-> ev.wg, wi |-> ev.wi, bar |-> {}, ld |-> None,
                own |-> FALSE]
          ELSE IF ev.op = "barrier" /\ HasFlag(ev.flags, CLK_GLOBAL_MEM_FENCE)
                  /\ g.c3.ph \in {1, 2}
          THEN [g.c3 EXCEPT !.ph = 2, !.bar = g.c3.bar \cup {ev.wg}]
          ELSE IF ev.op = "barrier" /\ ev.wg = g.c3.wg /\ g.c3.ph \in {1, 2}
          THEN [g.c3 EXCEPT !.own = TRUE]
          ELSE IF ev.touched /\ ev.op = "load" /\ ev.wi # None /\ g.c3.ph = 2
          THEN [g.c3 EXCEPT !.ph = 3, !.ld = ev.wi]
          ELSE IF ev.touched \/ FullSyncW(ev) \/ g.c3.ph = 3
          THEN NoScenario
          ELSE g.c3]

\* track "kernel".  kernel: "ended" once kernelEnd has been handled with the
\* watched global byte allocated, "begun" once kernelBegin has followed it,
\* "none" otherwise and again from the first access to the byte in the new
\* kernel; was: the byte was not in the initial state when kernelEnd was
\* called, kept until that first access has been handled.  c14: the event
\* just handled is that first access.
NoKernel == [ph |-> "none", was |-> FALSE]

KernelNext(ev) ==
  [g EXCEPT
   !.kernel = IF ev.op = "kernelEnd" /\ WatchGlobal /\ WatchLive
              THEN [ph |-> "ended", was |-> WatchState # StateInit]
              ELSE IF ev.op = "kernelBegin" /\ g.kernel.ph = "ended"
              THEN [g.kernel EXCEPT !.ph = "begun"]
              ELSE IF ev.touched
              THEN [ph |-> "none",
                    was |-> g.kernel.ph = "begun" /\ g.kernel.was]
              ELSE IF g.kernel.ph = "none" THEN NoKernel
              ELSE g.kernel,
   !.c14 = ev.touched /\ g.kernel.ph = "begun"]

\* track "frame".  frame: whether the event just handled is one on private
\* memory ("private"), or else a load, store or atomic whose key has no live
\* allocation ("stray").
FrameNext(ev) ==
  [g EXCEPT
   !.frame = IF /\ ev.op \in {"alloc", "dealloc", "load", "store", "atomic"}
                /\ getAddressSpace(ev.memory) = AddrSpacePrivate
             THEN "private"
             ELSE IF /\ ev.op \in {"load", "store", "atomic"}
                     /\ KEY(ev.memory, ev.address) \notin DOMAIN m_state
             THEN "stray"
             ELSE "none"]

\* track "sync".  sync: the event just handled, when it called
\* synchronize(memory, false) (lines 39, 283): the handler, the memory, and
\* whether a byte of a live allocation of that memory was not in the initial
\* state when it was called (dirty).
NoSync == [op |-> "none", memory |-> getGlobalMemory, dirty |-> FALSE]

Dirty(memory) ==
  \E k \in DOMAIN m_state :
    k[1] = memory /\ \E i \in DOMAIN m_state[k] : m_state[k][i] # StateInit

SyncNext(ev) ==
  [g EXCEPT
   !.sync = IF ev.op = "kernelEnd"
            THEN [op |-> ev.op, memory |-> getGlobalMemory,
                  dirty |-> Dirty(getGlobalMemory)]
            ELSE IF ev.op = "barrier" /\ HasFlag(ev.flags, CLK_LOCAL_MEM_FENCE)
            THEN [op |-> ev.op, memory |-> getLocalMemory(ev.wg),
                  dirty |-> Dirty(getLocalMemory(ev.wg))]
            ELSE NoSync]

GhostInit ==
  [first |-> NoFirst, c5 |-> FALSE, c9 |-> FALSE,
   kind |-> "none",
   only |-> None, fresh |-> {}, c2 |-> FALSE,
   ldr |-> None, str |-> None, diag |-> FALSE,
   c3 |-> NoScenario,
   sync |-> NoSync,
   kernel |-> NoKernel, c14 |-> FALSE,
   frame |-> "none"]

GhostNext(ev) ==
  IF track = "pair" THEN PairNext(ev)
  ELSE IF track = "kinds" THEN KindsNext(ev)
  ELSE IF track = "reuse" THEN ReuseNext(ev)
  ELSE IF track = "epoch" THEN EpochNext(ev)
  ELSE IF track = "scenario" THEN ScenarioNext(ev)
  ELSE IF track = "sync" THEN SyncNext(ev)
  ELSE IF track = "kernel" THEN KernelNext(ev)
  ELSE IF track = "frame" THEN FrameNext(ev)
  ELSE g

\* Whether the outcome of the event is kept, gn being g after it.
Keep(ev, gn) ==
  \/ track = "diag"
  \/ gn.c5 \/ gn.c9
  \/ ev.touched /\ gn.kind \in {"load", "atomic"}
  \/ gn.c2
  \/ gn.c3.ph = 3
  \/ gn.c14

\* An event that leaves the allocations alone.
Record(ev) ==
  LET gn == GhostNext(ev)
  IN /\ g' = gn
     /\ last' = IF Keep(ev, gn) THEN View(ev) ELSE NoEvent
     /\ UNCHANGED <<watch, track>>

\* The tracks that watch no byte.
Unwatched == {"diag", "sync", "frame"}

\* An allocation or deallocation: when it replaces or removes the watched
\* allocation, or there is none, the watched byte is chosen anew.
RecordAlloc(ev, key, size) ==
  /\ last' = IF track = "diag" THEN View(ev) ELSE NoEvent
  /\ UNCHANGED track
  /\ IF track \in Unwatched \/ (watch.off # None /\ watch.key # key)
     THEN /\ g' = GhostNext(ev)
          /\ UNCHANGED watch
     ELSE /\ watch' \in IF size = 0 THEN {NoWatch}
                        ELSE {[key |-> key, off |-> o] : o \in 0 .. (size - 1)}
          /\ g' = GhostInit

(***************************************************************************)
(* RaceDetector::RaceDetector: no kernel invocation, an empty shadow       *)
(* store; allow-uniform-writes read once from the environment.             *)
(***************************************************************************)
Tracks == {"diag", "pair", "kinds", "reuse", "epoch", "scenario", "sync", "kernel",
           "frame"}

\* !checkEnv("OCLGRIND_UNIFORM_WRITES") (line 29): true unless the variable
\* is set.  With the filter on, a store of bytes that differ from the memory
\* content is handled exactly as any store is with the filter off (lines
\* 212-216), and StoreData holds such bytes, so the runs with the filter on
\* include those with it off.  Both values are kept where the history
\* tells them apart ("pair"); "epoch" follows accesses that are not
\* filtered, the others run with the default.
AllowUniformWrites(t) ==
  IF t = "pair" THEN BOOLEAN
  ELSE IF t = "epoch" THEN {FALSE}
  ELSE {TRUE}

Init ==
  /\ track \in Tracks
  /\ m_kernelInvocation = FALSE
  /\ m_allowUniformWrites \in AllowUniformWrites(track)
  /\ m_state = <<>>
  /\ fault = FALSE
  /\ last = NoEvent
  /\ watch = NoWatch
  /\ g = GhostInit

\* RaceDetector::kernelBegin
KernelBegin ==
  /\ ~fault
  /\ ~m_kernelInvocation
  /\ m_kernelInvocation' = TRUE
  /\ UNCHANGED <<m_allowUniformWrites, m_state, fault>>
  /\ Record(Event("kernelBegin", getGlobalMemory, None, None, 0, 0, 0,
                  <<>>, <<>>, <<>>, TRUE))

\* kernelEnd without the synchronize of line 39.
KernelEndNoSync ==
  /\ ~fault
  /\ m_kernelInvocation
  /\ m_state' = m_state
  /\ m_kernelInvocation' = FALSE
  /\ UNCHANGED <<m_allowUniformWrites, fault>>
  /\ Record(Event("kernelEnd", getGlobalMemory, None, None, 0, 0, 0,
                  <<>>, <<>>, <<>>, TRUE))

\* RaceDetector::kernelEnd
KernelEnd ==
  /\ ~fault
  /\ m_kernelInvocation
  /\ m_state' = synchronize(m_state, getGlobalMemory, FALSE)
  /\ m_kernelInvocation' = FALSE
  /\ UNCHANGED <<m_allowUniformWrites, fault>>
  /\ Record(Event("kernelEnd", getGlobalMemory, None, None, 0, 0, 0,
                  <<>>, <<>>, <<>>, TRUE))

\* RaceDetector::memoryAllocated
MemoryAllocated(memory, address, size) ==
  /\ ~fault
  /\ UNCHANGED <<m_kernelInvocation, m_allowUniformWrites, fault>>
  /\ IF getAddressSpace(memory) = AddrSpacePrivate
     THEN /\ m_state' = m_state
          /\ Record(Event("alloc", memory, None, None, address, size, 0,
                          <<>>, <<>>, <<>>, FALSE))
     ELSE /\ Cardinality(DOMAIN m_state \cup {KEY(memory, address)}) <= MaxLive
          /\ m_state' = [k \in DOMAIN m_state \cup {KEY(memory, address)} |->
                           IF k = KEY(memory, address)
                           THEN [i \in 1 .. size |-> StateInit]
                           ELSE m_state[k]]
          /\ RecordAlloc(Event("alloc", memory, None, None, address, size, 0,
                               <<>>, <<>>, <<>>, TRUE),
                         KEY(memory, address), size)

\* RaceDetector::memoryDeallocated
MemoryDeallocated(memory, address) ==
  /\ ~fault
  /\ UNCHANGED <<m_kernelInvocation, m_allowUniformWrites, fault>>
  /\ IF getAddressSpace(memory) = AddrSpacePrivate
     THEN /\ m_state' = m_state
          /\ Record(Event("dealloc", memory, None, None, address, 0, 0,
                          <<>>, <<>>, <<>>, FALSE))
     ELSE /\ m_state' = [k \in DOMAIN m_state \ {KEY(memory, address)} |->
                           m_state[k]]
          /\ RecordAlloc(Event("dealloc", memory, None, None, address, 0, 0,
                               <<>>, <<>>, <<>>, TRUE),
                         KEY(memory, address), 0)

\* What a read through an invalid State pointer can find.
Garbage ==
  {StateInit,
   [StateInit EXCEPT !.canAtomic = FALSE, !.canRead = FALSE,
                     !.canWrite = FALSE]}

\* m_state[KEY(memory, address)] for a key the map does not hold (lines 56,
\* 208): operator[] inserts the key with the value (NULL, 0), and the loop
\* then reads and writes State objects through a pointer based on NULL.  The
\* behaviour is undefined: the invalid access aborts the process (fault), or
\* the handler carries on with the arbitrary values junk it has read, its
\* writes landing outside the shadow store.
UnknownKey(a, op) ==
  LET k == KEY(a.memory, a.address)
      n == EXTRACT_OFFSET(a.address) + a.size
  IN /\ m_state' = [kk \in DOMAIN m_state \cup {k} |->
                       IF kk = k THEN <<>> ELSE m_state[kk]]
     /\ fault' \in BOOLEAN
     /\ \E junk \in [1 .. n -> Garbage] :
          LET r == IF op = "atomic"
                   THEN AtomicLoop(a, junk, 0, <<>>)
                   ELSE RegisterLoop(a, junk, 0, FALSE, <<>>)
          IN Record(Event(op, a.memory, a.workItemIndex, a.workGroupIndex,
                          a.address, a.size, 0, a.storeData, a.ptr,
                          r.diags, TRUE))

\* registerLoadStore without the early return of lines 186-187.
registerLoadStoreAnytime(a) ==
  LET op == IF a.store THEN "store" ELSE "load"
      k == KEY(a.memory, a.address)
      r == RegisterLoop(a, m_state[k], 0, FALSE, <<>>)
  IN /\ m_state' = [m_state EXCEPT ![k] = r.shadow]
     /\ fault' = fault
     /\ Record(Event(op, a.memory, a.workItemIndex, a.workGroupIndex,
                     a.address, a.size, 0, a.storeData, a.ptr,
                     r.diags, m_kernelInvocation))

\* RaceDetector::registerLoadStore
registerLoadStore(a) ==
  LET op == IF a.store THEN "store" ELSE "load"
      k == KEY(a.memory, a.address)
  IN IF ~m_kernelInvocation \/ getAddressSpace(a.memory) = AddrSpacePrivate
     THEN /\ m_state' = m_state
          /\ fault' = fault
          /\ Record(Event(op, a.memory, a.workItemIndex, a.workGroupIndex,
                          a.address, a.size, 0, a.storeData, a.ptr, <<>>, FALSE))
     ELSE IF k \notin DOMAIN m_state
     THEN UnknownKey(a, op)
     ELSE LET r == RegisterLoop(a, m_state[k], 0, FALSE, <<>>)
          IN /\ m_state' = [m_state EXCEPT ![k] = r.shadow]
             /\ fault' = fault
             /\ Record(Event(op, a.memory, a.workItemIndex, a.workGroupIndex,
                             a.address, a.size, 0, a.storeData, a.ptr,
                             r.diags, TRUE))

\* RaceDetector::memoryAtomic
memoryAtomic(a) ==
  LET k == KEY(a.memory, a.address)
  IN IF k \notin DOMAIN m_state
     THEN UnknownKey(a, "atomic")
     ELSE LET r == AtomicLoop(a, m_state[k], 0, <<>>)
          IN /\ m_state' = [m_state EXCEPT ![k] = r.shadow]
             /\ fault' = fault
             /\ Record(Event("atomic", a.memory, a.workItemIndex,
                             a.workGroupIndex, a.address, a.size, 0,
                             <<>>, <<>>, r.diags, TRUE))

\* The interpreter only delivers accesses that lie inside a live allocation;
\* a work-item reaches global memory and the local memory of its own group.
InRange(memory, address, size) ==
  /\ KEY(memory, address) \in DOMAIN m_state
  /\ size >= 1
  /\ EXTRACT_OFFSET(address) + size <= Len(m_state[KEY(memory, address)])

Reachable(wg, memory) ==
  memory = getGlobalMemory \/ memory = getLocalMemory(wg)

Call(memory, wi, wg, address, size, store, storeData, ptr, instruction) ==
  [memory |-> memory, workItemIndex |-> wi, workGroupIndex |-> wg,
   address |-> address, size |-> size, store |-> store,
   storeData |-> storeData, ptr |-> ptr, instruction |-> instruction]

Addresses == {Address(Buffer, o) : o \in 0 .. (MaxSize - 1)}

\* The bytes at memory->getPointer(address): read by the handler only when
\* uniform writes are allowed.
Contents(size) ==
  IF m_allowUniformWrites THEN [1 .. size -> 0 .. MaxContent] ELSE {<<>>}

\* The bytes a store writes.  They are read only by the uniform-write filter
\* (lines 214-217); without it the bytes 0 stand for all of them.
StoreData(size) ==
  IF m_allowUniformWrites THEN [1 .. size -> Bytes] ELSE {[i \in 1 .. size |-> 0]}

\* RaceDetector::memoryLoad(memory, workItem, address, size)
MemoryLoadWI(memory, wi, address, size) ==
  /\ ~fault
  /\ Reachable(GroupOf(wi), memory)
  /\ InRange(memory, address, size)
  /\ \E instruction \in Instructions :
       registerLoadStore(Call(memory, wi, GroupOf(wi), address, size,
                              FALSE, <<>>, <<>>, instruction))
  /\ UNCHANGED <<m_kernelInvocation, m_allowUniformWrites>>

\* RaceDetector::memoryLoad(memory, workGroup, address, size)
MemoryLoadWG(memory, wg, address, size) ==
  /\ ~fault
  /\ Reachable(wg, memory)
  /\ InRange(memory, address, size)
  /\ registerLoadStore(Call(memory, None, wg, address, size,
                            FALSE, <<>>, <<>>, NULL))
  /\ UNCHANGED <<m_kernelInvocation, m_allowUniformWrites>>

\* RaceDetector::memoryStore(memory, workItem, address, size, storeData)
MemoryStoreWI(memory, wi, address, size) ==
  /\ ~fault
  /\ Reachable(GroupOf(wi), memory)
  /\ InRange(memory, address, size)
  /\ \E storeData \in StoreData(size), ptr \in Contents(size),
        instruction \in Instructions :
       registerLoadStore(Call(memory, wi, GroupOf(wi), address, size,
                              TRUE, storeData, ptr, instruction))
  /\ UNCHANGED <<m_kernelInvocation, m_allowUniformWrites>>

\* RaceDetector::memoryStore(memory, workGroup, address, size, storeData)
MemoryStoreWG(memory, wg, address, size) ==
  /\ ~fault
  /\ Reachable(wg, memory)
  /\ InRange(memory, address, size)
  /\ \E storeData \in StoreData(size), ptr \in Contents(size) :
       registerLoadStore(Call(memory, None, wg, address, size,
                              TRUE, storeData, ptr, NULL))
  /\ UNCHANGED <<m_kernelInvocation, m_allowUniformWrites>>

\* RaceDetector::memoryAtomic.  Atomic operations are executed by the
\* work-items of a running kernel, on global or local memory.
MemoryAtomic(memory, wi, address, size) ==
  /\ ~fault
  /\ m_kernelInvocation
  /\ Reachable(GroupOf(wi), memory)
  /\ InRange(memory, address, size)
  /\ \E instruction \in Instructions :
       memoryAtomic(Call(memory, wi, GroupOf(wi), address, size,
                         FALSE, <<>>, <<>>, instruction))
  /\ UNCHANGED <<m_kernelInvocation, m_allowUniformWrites>>

\* RaceDetector::workGroupBarrier.  Barriers are executed by the work-groups
\* of a running kernel.
WorkGroupBarrier(wg, flags) ==
  /\ ~fault
  /\ m_kernelInvocation
  /\ m_state' = BarrierStore(m_state, wg, flags)
  /\ UNCHANGED <<m_kernelInvocation, m_allowUniformWrites, fault>>
  /\ Record(Event("barrier", getLocalMemory(wg), None, wg, 0, 0, flags,
                  <<>>, <<>>, <<>>, TRUE))

Next ==
  \/ KernelBegin
  \/ KernelEnd
  \/ \E memory \in Memories, size \in 1 .. MaxSize :
       MemoryAllocated(memory, Address(Buffer, 0), size)
  \/ \E memory \in Memories : MemoryDeallocated(memory, Address(Buffer, 0))
  \/ \E memory \in Memories, wi \in WorkItems, address \in Addresses,
        size \in 1 .. MaxSize :
       MemoryLoadWI(memory, wi, address, size)
  \/ \E memory \in Memories, wg \in Groups, address \in Addresses,
        size \in 1 .. MaxSize :
       MemoryLoadWG(memory, wg, address, size)
  \/ \E memory \in Memories, wi \in WorkItems, address \in Addresses,
        size \in 1 .. MaxSize :
       MemoryStoreWI(memory, wi, address, size)
  \/ \E memory \in Memories, wg \in Groups, address \in Addresses,
        size \in 1 .. MaxSize :
       MemoryStoreWG(memory, wg, address, size)
  \/ \E memory \in Memories, wi \in WorkItems, address \in Addresses,
        size \in 1 .. MaxSize :
       MemoryAtomic(memory, wi, address, size)
  \/ \E wg \in Groups, flags \in BarrierFlags : WorkGroupBarrier(wg, flags)

\* memoryLoad and memoryStore of a work-item on its private memory.
PrivateAccess(wi, address, size, store) ==
  /\ ~fault
  /\ \E storeData \in IF store THEN StoreData(size) ELSE {<<>>},
        ptr \in IF store THEN Contents(size) ELSE {<<>>},
        instruction \in Instructions :
       registerLoadStore(Call(getPrivateMemory(wi), wi, GroupOf(wi), address,
                              size, store, storeData, ptr, instruction))
  /\ UNCHANGED <<m_kernelInvocation, m_allowUniformWrites>>

\* memoryLoad and memoryStore of a work-item at an address whose key has no
\* live allocation.
StrayAccess(memory, wi, address, size, store) ==
  /\ ~fault
  /\ Reachable(GroupOf(wi), memory)
  /\ KEY(memory, address) \notin DOMAIN m_state
  /\ Cardinality(DOMAIN m_state) < MaxLive
  /\ \E storeData \in IF store THEN StoreData(size) ELSE {<<>>},
        ptr \in IF store THEN Contents(size) ELSE {<<>>},
        instruction \in Instructions :
       registerLoadStore(Call(memory, wi, GroupOf(wi), address, size,
                              store, storeData, ptr, instruction))
  /\ UNCHANGED <<m_kernelInvocation, m_allowUniformWrites>>

\* memoryAtomic of a work-item at an address whose key has no live
\* allocation, in global or local memory or in its private memory.
StrayAtomic(memory, wi, address, size) ==
  /\ ~fault
  /\ m_kernelInvocation
  /\ Reachable(GroupOf(wi), memory) \/ memory = getPrivateMemory(wi)
  /\ KEY(memory, address) \notin DOMAIN m_state
  /\ Cardinality(DOMAIN m_state) < MaxLive
  /\ \E instruction \in Instructions :
       memoryAtomic(Call(memory, wi, GroupOf(wi), address, size,
                         FALSE, <<>>, <<>>, instruction))
  /\ UNCHANGED <<m_kernelInvocation, m_allowUniformWrites>>

\* The events of Next, and those an interpreter can deliver besides: events
\* on private memory, and accesses outside every live allocation.
NextAll ==
  \/ Next
  \/ \E wi \in WorkItems, size \in 1 .. MaxSize :
       MemoryAllocated(getPrivateMemory(wi), Address(Buffer, 0), size)
  \/ \E wi \in WorkItems :
       MemoryDeallocated(getPrivateMemory(wi), Address(Buffer, 0))
  \/ \E wi \in WorkItems, address \in Addresses, size \in 1 .. MaxSize,
        store \in BOOLEAN :
       PrivateAccess(wi, address, size, store)
  \/ \E memory \in Memories, wi \in WorkItems, address \in Addresses,
        size \in 1 .. MaxSize, store \in BOOLEAN :
       StrayAccess(memory, wi, address, size, store)
  \/ \E wi \in WorkItems,
        memory \in Memories \cup {getPrivateMemory(w) : w \in WorkItems},
        address \in Addresses, size \in 1 .. MaxSize :
       StrayAtomic(memory, wi, address, size)

(***************************************************************************)
(* The specifications: one program, several kinds of history.            *)
(***************************************************************************)
Spec == Init /\ [][Next]_vars
InitDiag == Init /\ track = "diag"
SpecDiag == InitDiag /\ [][Next]_vars
InitPair == Init /\ track = "pair"
SpecPair == InitPair /\ [][Next]_vars
InitKinds == Init /\ track = "kinds"
SpecKinds == InitKinds /\ [][Next]_vars
InitReuse == Init /\ track = "reuse"
SpecReuse == InitReuse /\ [][Next]_vars
InitEpoch == Init /\ track = "epoch"
SpecEpoch == InitEpoch /\ [][Next]_vars
InitScenario == Init /\ track = "scenario"
SpecScenario == InitScenario /\ [][Next]_vars
InitSync == Init /\ track = "sync"
SpecSync == InitSync /\ [][Next]_vars
InitKernel == Init /\ track = "kernel"
SpecKernel == InitKernel /\ [][Next]_vars
InitFrame == Init /\ track = "frame"
SpecFrame == InitFrame /\ [][NextAll]_vars

(***************************************************************************)
(* The claims.                                                             *)
(***************************************************************************)

\* C1 (under SpecEpoch): with the uniform-write filter off, once one
\* work-item has loaded the watched global byte and a different work-item
\* has stored to it with no workGroupBarrier or kernelEnd between the two
\* accesses, an access covering that byte has emitted a diagnostic.
C1_DetectionComplete ==
  (WatchGlobal /\ ~m_allowUniformWrites /\ Unsynchronized(g.ldr, g.str))
    => g.diag

\* C2 (under SpecReuse): after a barrier by group G with the fence flag of
\* the watched byte's memory, the next access by a work-item of G to the
\* byte, which only work-items of G have accessed since its allocation or
\* last full synchronize, raises no diagnostic on it.
C2_BarrierReenablesReuse ==
  g.c2 => ~last.wDiag

\* C3 (under SpecScenario): a work-item of group G stores to the watched
\* global byte in its initial shadow state, one or more barriers with
\* CLK_GLOBAL_MEM_FENCE follow, and a work-item of another group then loads
\* the byte in the same kernel: the load emits a ReadWriteRace diagnostic.
C3_GlobalFenceKeepsConflict ==
  (g.c3.ph = 3 /\ GroupOf(g.c3.ld) # g.c3.wg)
    => "ReadWriteRace" \in last.types

\* C3 happens: the store, a barrier by the storing group itself, the load
\* from another group, and its diagnostic.
C3_Witness ==
  /\ g.c3.ph = 3
  /\ g.c3.wg \in g.c3.bar
  /\ GroupOf(g.c3.ld) # g.c3.wg
  /\ last.types = {"ReadWriteRace"}

\* C4 (under SpecDiag): handling one memoryLoad, memoryStore or memoryAtomic
\* event sends at most one diagnostic to the sink.
C4_AtMostOneDiagnostic ==
  last.op \in {"load", "store", "atomic"} => last.n <= 1

\* C5 as stated (under SpecPair): A stores v to the watched byte in its
\* initial shadow state and a different work-item B then stores v to it:
\* B's store emits a diagnostic iff uniform writes are not allowed or the
\* memory content of the byte differs from v.
C5_AsStated ==
  g.c5 => ((last.n > 0) <=> (~m_allowUniformWrites \/ last.wDiffers))

\* C5 (under SpecPair): A stores v to the watched byte in its initial shadow
\* state and a different work-item B then stores v to it: B's store raises
\* a diagnostic on the byte iff uniform writes are not allowed or the memory
\* content of the byte differs from v, and the store has not already raised
\* one on an earlier byte.
C5_UniformWriteFilter ==
  g.c5 => (last.wDiag <=>
             ((~m_allowUniformWrites \/ last.wDiffers) /\ ~last.wEarlier))

\* C5 happens: uniform writes are allowed, B stores the value the memory
\* holds, and the store emits nothing.
C5_Witness ==
  /\ g.c5
  /\ m_allowUniformWrites
  /\ ~last.wDiffers
  /\ last.n = 0

\* C6 as stated (under SpecKinds): while every access to the watched byte
\* since its allocation or last full synchronize is a memoryAtomic, none of
\* those accesses emits a diagnostic.
C6_AsStated ==
  g.kind = "atomic" => last.n = 0

\* C6 (under SpecKinds): while every access to the watched byte since its
\* allocation or last full synchronize is a memoryAtomic, none of those
\* accesses raises a diagnostic on the byte.
C6_AtomicsCompatible ==
  g.kind = "atomic" => ~last.wDiag

\* C6 happens: an atomic on the watched byte, which has only been accessed
\* atomically, that also covers a byte it races on.
C6_Witness ==
  /\ g.kind = "atomic"
  /\ last.n > 0
  /\ ~last.wDiag
  /\ ~WatchState.canRead

\* Every load the detector can be handed in the current state leaves canRead
\* of every byte of the allocation as it is.
LoadsKeepCanRead ==
  m_kernelInvocation =>
    \A memory \in Memories, wi \in WorkItems \cup {None}, wg \in Groups,
       address \in Addresses, size \in 1 .. MaxSize :
      (/\ wi # None => wg = GroupOf(wi)
       /\ Reachable(wg, memory)
       /\ InRange(memory, address, size))
      => LET k == KEY(memory, address)
             a == Call(memory, wi, wg, address, size, FALSE, <<>>, <<>>, "insn")
             r == RegisterLoop(a, m_state[k], 0, FALSE, <<>>)
         IN \A i \in DOMAIN m_state[k] :
              r.shadow[i].canRead = m_state[k][i].canRead

\* C8 as stated (under SpecKinds): a load never changes canRead of any byte,
\* and while every access to the watched byte since its allocation or last
\* full synchronize is a load, none of those loads emits a diagnostic.
C8_AsStated ==
  /\ LoadsKeepCanRead
  /\ g.kind = "load" => last.n = 0

\* C8 (under SpecKinds): a load never changes canRead of any byte, and while
\* every access to the watched byte since its allocation or last full
\* synchronize is a load, none of those loads raises a diagnostic on the
\* byte.
C8_ReadsDoNotRace ==
  /\ LoadsKeepCanRead
  /\ g.kind = "load" => ~last.wDiag

\* C8 happens: a load of the watched byte, which has only been loaded, by an
\* access that also covers a byte it races on; canRead of the watched byte
\* is still set.
C8_Witness ==
  /\ g.kind = "load"
  /\ last.n > 0
  /\ ~last.wDiag
  /\ WatchState.canRead
  /\ ~WatchState.canWrite

\* C7 (under SpecDiag): in every state of a running kernel, a store by a
\* work-item to a byte followed at once by the same work-item's load of the
\* byte, or its store of the same value to it, ends with no diagnostic from
\* the second access.  The byte then holds the value stored, so that is the
\* content the second store finds.
C7_OwnStoreNoRace ==
  m_kernelInvocation =>
    \A memory \in Memories, wi \in WorkItems, address \in Addresses :
      (Reachable(GroupOf(wi), memory) /\ InRange(memory, address, 1))
      => \A storeData \in StoreData(1), ptr \in Contents(1) :
           LET k == KEY(memory, address)
               st == Call(memory, wi, GroupOf(wi), address, 1, TRUE,
                          storeData, ptr, "insn")
               r1 == RegisterLoop(st, m_state[k], 0, FALSE, <<>>)
               ld == Call(memory, wi, GroupOf(wi), address, 1, FALSE,
                          <<>>, <<>>, "insn")
               r2 == RegisterLoop(ld, r1.shadow, 0, FALSE, <<>>)
               again == Call(memory, wi, GroupOf(wi), address, 1, TRUE,
                             storeData,
                             IF m_allowUniformWrites THEN storeData ELSE <<>>,
                             "insn")
               r3 == RegisterLoop(again, r1.shadow, 0, FALSE, <<>>)
           IN r2.diags = <<>> /\ r3.diags = <<>>

\* C9 (under SpecPair): a work-item's atomic on the watched global byte in
\* its initial shadow state, then a store to it by a work-item of another
\* group that the uniform-write filter does not suppress: the store emits a
\* ReadWriteRace diagnostic.
C9_MixedAtomicStore ==
  g.c9 => "ReadWriteRace" \in last.types

\* C10 (under SpecDiag): the second entity of every diagnostic is the
\* work-item recorded in the shadow byte it was raised on when there is one,
\* else the recorded work-group when there is one, else (unknown).
C10_PriorEntity ==
  \A d \in last.att :
    IF d.workItem # None
    THEN /\ d.second.kind = "Global"
         /\ d.second.global = Size3(d.workItem, getGlobalSize)
    ELSE IF d.workGroup # None
    THEN /\ d.second.kind = "Group"
         /\ d.second.group = Size3(d.workGroup, getNumGroups)
    ELSE d.second.kind = "(unknown)"

\* C11 (under SpecSync): right after synchronize(memory, false), that is
\* after kernelEnd for global memory and after a barrier with
\* CLK_LOCAL_MEM_FENCE for the group's local memory, every byte of every
\* live allocation of that memory has canRead = canWrite = canAtomic = TRUE,
\* workItem = workGroup = -1 and wasWorkItem = FALSE.
C11_FullSynchronize ==
  g.sync.op # "none" =>
    \A k \in DOMAIN m_state :
      k[1] = g.sync.memory =>
        \A i \in DOMAIN m_state[k] :
          LET state == m_state[k][i]
          IN /\ state.canRead /\ state.canWrite /\ state.canAtomic
             /\ state.workItem = None /\ state.workGroup = None
             /\ ~state.wasWorkItem

\* C11 happens: a barrier with CLK_LOCAL_MEM_FENCE has just synchronized a
\* local memory that held an allocation with a byte not in its initial state.
C11_Witness ==
  /\ g.sync.op = "barrier"
  /\ g.sync.dirty
  /\ \E k \in DOMAIN m_state : k[1] = g.sync.memory /\ Len(m_state[k]) > 0

\* C12 (under SpecSync): right after kernelEnd every byte of every live
\* global allocation equals a freshly allocated shadow byte field for field,
\* instruction included.
C12_KernelEndRestoresInitial ==
  g.sync.op = "kernelEnd" =>
    \A k \in DOMAIN m_state :
      k[1] = getGlobalMemory =>
        \A i \in DOMAIN m_state[k] : m_state[k][i] = StateInit

\* C13 (under SpecSync): every shadow byte with canRead = FALSE and
\* canWrite = FALSE records a work-item or a work-group.
C13_Attribution ==
  \A k \in DOMAIN m_state :
    \A i \in DOMAIN m_state[k] :
      LET state == m_state[k][i]
      IN (~state.canRead /\ ~state.canWrite)
           => (state.workItem # None \/ state.workGroup # None)

\* C14 as stated (under SpecKernel): after kernelEnd and the next
\* kernelBegin, the first access to the watched global byte in the new
\* kernel emits no diagnostic.
C14_AsStated ==
  g.c14 => last.n = 0

\* C14 (under SpecKernel): after kernelEnd and the next kernelBegin, the
\* first access to the watched global byte in the new kernel raises no
\* diagnostic on that byte.
C14_KernelEndResets ==
  g.c14 => ~last.wDiag

\* C14 happens: the first access in the new kernel to a byte that was not in
\* its initial state when the previous kernel ended.
C14_Witness ==
  /\ g.c14
  /\ g.kernel.was
  /\ last.n = 0
  /\ WatchState # StateInit

\* C17 (under SpecSync): in every reachable state, every shadow byte with
\* wasWorkItem = true has workItem set (not none).
C17_WorkItemFlag ==
  \A k \in DOMAIN m_state :
    \A i \in DOMAIN m_state[k] :
      m_state[k][i].wasWorkItem => m_state[k][i].workItem # None

\* C17 happens: a byte recorded by a work-item stands next to a byte that
\* records a work-group and no work-item.
C17_Witness ==
  \E k \in DOMAIN m_state :
    \E i, j \in DOMAIN m_state[k] :
      /\ m_state[k][i].wasWorkItem
      /\ m_state[k][i].workItem # None
      /\ ~m_state[k][j].wasWorkItem
      /\ m_state[k][j].workGroup # None

\* C18 (under SpecDiag): in every state of a running kernel, any store (by
\* a work-item or by a work-group) to a live region leaves every byte of its
\* range with canRead = canWrite = canAtomic = false and workGroup the
\* storing group, and for a work-item store workItem the storing work-item
\* with wasWorkItem = true, whether or not the store reports a race.
C18_StorePostState ==
  m_kernelInvocation =>
    \A memory \in Memories, wg \in Groups, address \in Addresses,
       size \in 1 .. MaxSize :
      (Reachable(wg, memory) /\ InRange(memory, address, size))
      => \A wi \in {w \in WorkItems : GroupOf(w) = wg} \cup {None},
            storeData \in StoreData(size), ptr \in Contents(size) :
           LET k == KEY(memory, address)
               st == Call(memory, wi, wg, address, size, TRUE,
                          storeData, ptr, IF wi = None THEN NULL ELSE "insn")
               r == RegisterLoop(st, m_state[k], 0, FALSE, <<>>)
           IN \A offset \in 0 .. (size - 1) :
                LET state == r.shadow[EXTRACT_OFFSET(address) + offset + 1]
                IN /\ ~state.canRead /\ ~state.canWrite /\ ~state.canAtomic
                   /\ state.workGroup = wg
                   /\ wi # None => (state.workItem = wi /\ state.wasWorkItem)

\* C19 (under SpecScenario): work-item A of group H stores to the watched
\* global byte in its initial shadow state, barriers with
\* CLK_GLOBAL_MEM_FENCE of other groups only follow, H executes no barrier,
\* and a different work-item B of H then loads the byte: the load emits a
\* ReadWriteRace diagnostic.
C19_OtherGroupBarrier ==
  (/\ g.c3.ph = 3
   /\ GroupOf(g.c3.ld) = g.c3.wg
   /\ g.c3.ld # g.c3.wi
   /\ g.c3.bar # {}
   /\ g.c3.wg \notin g.c3.bar
   /\ ~g.c3.own)
    => "ReadWriteRace" \in last.types

\* C20 (under SpecDiag): a memoryLoad or memoryStore event, by a work-item
\* or by a work-group, handled while no kernel invocation is current leaves
\* the whole shadow store unchanged and emits no diagnostic.
C20_OutsideKernelIgnored ==
  /\ []((last.op \in {"load", "store"} /\ ~m_kernelInvocation) => last.n = 0)
  /\ [][(last'.op \in {"load", "store"} /\ ~m_kernelInvocation')
          => m_state' = m_state]_vars

\* C20 happens: a store handled after a kernel has ended, on a live region
\* whose bytes the kernel accessed.
C20_Witness ==
  /\ last.op = "store"
  /\ ~m_kernelInvocation
  /\ \E k \in DOMAIN m_state :
       \E i \in DOMAIN m_state[k] : m_state[k][i].instruction # NULL

\* C15 (under SpecFrame): an event (memoryAllocated, memoryDeallocated,
\* memoryLoad, memoryStore, memoryAtomic) on a memory of the private address
\* space leaves the shadow store unchanged: no key is added or removed and
\* no shadow byte changes.
C15_PrivateIgnored ==
  [][g'.frame = "private" => m_state' = m_state]_vars

\* C16 (under SpecFrame): a load, store or atomic whose address decodes to a
\* key with no live allocation leaves the shadow store unchanged, and the
\* handler makes no invalid access in place of a shadow byte.
C16_UnknownRegionGuarded ==
  [][g'.frame = "stray" => (m_state' = m_state /\ ~fault')]_vars

====
